---- MODULE Spec2Model ----
(***************************************************************************)
(* Model of the Darktable MCP bridge server (tools/mcp_server): the        *)
(* request router (MCPRequestHandler), the dispatcher (MCPServerState),    *)
(* the provider clients (LMStudioClient, OllamaClient, _post_json) and the *)
(* lifecycle wrapper (MCPServer).                                          *)
(*                                                                         *)
(* Text is modelled as a sequence of pieces.  Provider names are sequences *)
(* of single characters, so that str.lower() acts on them; image data and  *)
(* paths are sequences of tokens ("data:", a MIME type, ";base64", ",",    *)
(* a payload, a path stem, an extension), so that startswith("data:") and  *)
(* partition(",") act on them.  An optional value (a key that may be       *)
(* missing from a JSON object, a Python None) is a sequence of length 0    *)
(* or 1.                                                                   *)
(*                                                                         *)
(* The prompt of a vision request and the content of chat messages are     *)
(* passed through to the provider unread by the dispatcher and are left    *)
(* out; the temperature is the default 0.2.  Request methods other than    *)
(* GET, POST and OPTIONS have no handler in MCPRequestHandler: the base    *)
(* class answers them itself.                                              *)
(*                                                                         *)
(* Spec is the request path: one handler thread from accept to response,   *)
(* blocking at each outbound POST.  LifeSpec is the lifecycle wrapper:     *)
(* start, wait_forever, stop and the threads running serve_forever.        *)
(***************************************************************************)
EXTENDS Integers, Sequences, FiniteSets, TLC

VARIABLES
    config,         \* MCPServerState.config (MCPServerConfig), fixed at construction
    pc,             \* position of the request handler thread: idle, calling, responded
    request,        \* the HTTP request being handled
    provider_name,  \* chat/vision/batch local: the resolved provider name
    items_done,     \* batch local: number of entries whose vision call returned
    results,        \* batch local: the results list
    response,       \* what _send_json / send_response wrote: <<>> or <<r>>
    log,            \* history: normalisations and outbound POSTs of this request
    writes,         \* history: the responses the handler began to write
    concurrent,     \* answer written on a second connection since the handler
                    \* thread last moved: <<>> or <<r>>
    mode,           \* how the wrapper is driven: "cli" (__main__.main) or "library"
    mpc,            \* position of the main thread in the MCPServer API
    in_handler,     \* the main thread runs the signal handler _shutdown
    _thread,        \* MCPServer._thread: None or the tracked background thread
    tpc,            \* position of each thread in serve_forever (0: the main thread)
    shutdown_request,   \* BaseServer.__shutdown_request
    is_shut_down,       \* BaseServer.__is_shut_down, an Event
    closed,         \* the listening socket was closed by server_close()
    raised          \* what the last call of start() raised: <<>> or <<class>>

reqvars == <<pc, request, provider_name, items_done, results, response, log,
             writes, concurrent>>

lifevars == <<mode, mpc, in_handler, _thread, tpc, shutdown_request,
              is_shut_down, closed, raised>>

----------------------------------------------------------------------------
(* Bounds *)

\* Longest `images` list a request carries.
MaxImages == 2

\* Background threads start() may create in one run.
MaxThreads == 2

----------------------------------------------------------------------------
(* Text *)

UpperChars == <<"A", "B", "D", "G", "I", "L", "M", "O", "S", "T", "U">>
LowerChars == <<"a", "b", "d", "g", "i", "l", "m", "o", "s", "t", "u">>

\* str.lower() on one character.
LowerChar(ch) ==
    IF \E i \in DOMAIN UpperChars : UpperChars[i] = ch
    THEN LowerChars[CHOOSE i \in DOMAIN UpperChars : UpperChars[i] = ch]
    ELSE ch

\* str.lower()
Lower(s) == [i \in DOMAIN s |-> LowerChar(s[i])]

lmstudio == <<"l", "m", "s", "t", "u", "d", "i", "o">>
ollama   == <<"o", "l", "l", "a", "m", "a">>

\* Mixed-case and unknown names a request or the environment may carry.
LMStudioMixed == <<"L", "M", "S", "t", "u", "d", "i", "o">>
OllamaUpper   == <<"O", "L", "L", "A", "M", "A">>
bogus         == <<"b", "o", "g", "u", "s">>
BogusMixed    == <<"B", "o", "g", "u", "s">>

\* An optional value: None / a missing key is <<>>, a present value v is <<v>>.
None == <<>>
Some(v) == <<v>>

----------------------------------------------------------------------------
(* Configuration *)

\* ProviderConfig: default_model is optional (an empty environment variable
\* gives "", which `model or default_model` treats like None); api_key is
\* None unless it is set.
ProviderConfig(model) == [api_key |-> None, default_model |-> model]

\* MCPServerConfig: default_provider comes from DARKTABLE_MCP_PROVIDER or the
\* --provider flag; the per-provider default model from LM_STUDIO_MODEL /
\* OLLAMA_MODEL.
MCPServerConfig(dp, lm_model, ol_model) ==
    [default_provider |-> dp,
     lm_studio |-> ProviderConfig(lm_model),
     ollama |-> ProviderConfig(ol_model)]

\* dataclasses.replace of the two api_key fields (LM_STUDIO_API_KEY, or a
\* ProviderConfig built by the caller of create_server).
WithKeys(cfg, lm_key, ol_key) ==
    [cfg EXCEPT !.lm_studio.api_key = lm_key, !.ollama.api_key = ol_key]

\* The configuration of an environment that sets none of the variables.
DefaultConfig == MCPServerConfig(lmstudio, Some("vision"), Some("llava"))

\* The configurations the model starts from: the default one with either of
\* two LM Studio keys, and three without a key.
Configs ==
    { MCPServerConfig(OllamaUpper, Some("vision"), Some("llava")),
      MCPServerConfig(bogus, Some("vision"), Some("llava")),
      MCPServerConfig(lmstudio, None, Some("llava")),
      WithKeys(DefaultConfig, Some("sk-A"), None),
      WithKeys(DefaultConfig, Some("sk-B"), None) }

\* The redaction marker.
Hidden == "<hidden>"

\* A to_dict that copies the key into the snapshot.
to_dict_mut_plain(pcfg) ==
    [api_key |-> pcfg.api_key, default_model |-> pcfg.default_model]

\* ProviderConfig.to_dict: `"<hidden>" if self.api_key else None`; an empty
\* key is falsy.  base_url and timeout are not modelled.
to_dict(pcfg) ==
    [api_key |-> IF pcfg.api_key /= None /\ pcfg.api_key /= Some("")
                 THEN Some(Hidden) ELSE None,
     default_model |-> pcfg.default_model]

\* MCPServerConfig.as_dict (host and port are not modelled).
as_dict(cfg) ==
    [default_provider |-> cfg.default_provider,
     lmstudio |-> to_dict(cfg.lm_studio),
     ollama |-> to_dict(cfg.ollama)]

\* The body of a response that is not a configuration snapshot.
NoSnapshot ==
    [default_provider |-> <<>>,
     lmstudio |-> [api_key |-> None, default_model |-> None],
     ollama |-> [api_key |-> None, default_model |-> None]]

\* MCPServerState._clients: the keys of the client map.
Clients == {lmstudio, ollama}

\* The ProviderConfig a client was constructed with.
ClientConfig(cfg, name) == IF name = lmstudio THEN cfg.lm_studio ELSE cfg.ollama

----------------------------------------------------------------------------
(* Exceptions and results *)

\* A raised exception: its class and str(exc), the message being a fixed
\* text and the piece of the request it quotes (a provider name, a path).
Exc(cls, msg, arg) == [cls |-> cls, msg |-> msg, arg |-> arg]

NoExc == Exc("", "", <<>>)

\* A computation either returns a value or raises.
Return(v) == [ok |-> TRUE, val |-> v, exc |-> NoExc]
Raise(e)  == [ok |-> FALSE, val |-> <<>>, exc |-> e]

----------------------------------------------------------------------------
(* JSON request values *)

\* The `provider` field of a payload: missing, a string, or a non-string
\* truthy value such as the number 5.
ProviderAbsent == [t |-> "absent", s |-> <<>>]
ProviderStr(s) == [t |-> "str", s |-> s]
ProviderNum    == [t |-> "num", s |-> <<>>]

\* Python truthiness of payload.get("provider").
Truthy(p) == \/ p.t = "num"
             \/ p.t = "str" /\ p.s /= <<>>

\* A get_client that looks the name up as written, without .lower().
get_client_mut_nolower(cfg, provider) ==
    IF Truthy(provider) /\ provider.t /= "str"
    THEN Raise(Exc("AttributeError", "object has no attribute 'lower'", <<>>))
    ELSE LET provider_name_ == IF Truthy(provider) THEN provider.s
                               ELSE cfg.default_provider
         IN  IF provider_name_ \notin Clients
             THEN Raise(Exc("ValueError", "Unsupported provider '<name>'.",
                            provider_name_))
             ELSE Return(provider_name_)

\* MCPServerState.get_client: (provider or default_provider).lower(), looked
\* up in _clients.  A truthy non-string has no .lower().
get_client(cfg, provider) ==
    IF Truthy(provider) /\ provider.t /= "str"
    THEN Raise(Exc("AttributeError", "object has no attribute 'lower'", <<>>))
    ELSE LET provider_name_ == Lower(IF Truthy(provider) THEN provider.s
                                     ELSE cfg.default_provider)
         IN  IF provider_name_ \notin Clients
             THEN Raise(Exc("ValueError", "Unsupported provider '<name>'.",
                            provider_name_))
             ELSE Return(provider_name_)

----------------------------------------------------------------------------
(* Files and image entries *)

\* Paths: a stem and an extension.
ImgA       == <<"/img/a", ".png">>
ImgB       == <<"/img/b", ".raw">>
NoSuchFile == <<"/no/such/file", ".png">>

\* The files open(path, "rb") can read.
ReadablePaths == {ImgA, ImgB}

\* base64.b64encode(raw).decode("ascii") of each readable file's bytes.
Base64OfFile(path) == IF path = ImgA THEN <<"QUJD">> ELSE <<"eHl6">>

\* clients.encode_image_to_base64: open() raises FileNotFoundError (an
\* OSError) for a path it cannot read.
encode_image_to_base64(path) ==
    IF path \in ReadablePaths
    THEN Return(Base64OfFile(path))
    ELSE Raise(Exc("OSError", "[Errno 2] No such file or directory: '<path>'", path))

\* mimetypes.guess_type(path)[0]: by extension, None when unknown.
guess_type(path) ==
    IF path = <<>> THEN None
    ELSE IF path[Len(path)] = ".png" THEN Some("image/png")
    ELSE IF path[Len(path)] = ".jpg" THEN Some("image/jpeg")
    ELSE None

\* An entry of `images`: a JSON string (s), a JSON object with any of the
\* keys data_uri, base64, path, mime, or a value of another type.
EntryStr(s) ==
    [t |-> "str", s |-> s,
     data_uri |-> None, base64 |-> None, path |-> None, mime |-> None]
EntryObj(data_uri, base64, path, mime) ==
    [t |-> "obj", s |-> <<>>,
     data_uri |-> data_uri, base64 |-> base64, path |-> path, mime |-> mime]

JpegDataUri == <<"data:", "image/jpeg", ";base64", ",", "AAAA">>

EntryPath        == EntryStr(ImgA)
EntryMissing     == EntryStr(NoSuchFile)
EntryDataUri     == EntryObj(Some(JpegDataUri), None, None, None)
EntryBase64      == EntryObj(None, Some(<<"QUJD">>), None, None)
EntryObjPath     == EntryObj(None, None, Some(ImgB), Some("image/x-raw"))
EntryUnsupported == EntryObj(None, None, None, Some("image/png"))

Entries ==
    {EntryPath, EntryMissing, EntryDataUri, EntryBase64, EntryObjPath,
     EntryUnsupported}

\* A normalised image: (encoded, mime_type).
Normalised(encoded, mime_type) == [encoded |-> encoded, mime |-> mime_type]

\* MCPServerState._load_image
_load_image(path, mime_hint) ==
    LET mime_type == IF mime_hint /= None THEN mime_hint ELSE guess_type(path)
        encoded   == encode_image_to_base64(path)
    IN  IF encoded.ok THEN Return(Normalised(encoded.val, mime_type)) ELSE encoded

\* MCPServerState._normalise_image_entry
_normalise_image_entry(entry) ==
    IF entry.t = "str" THEN _load_image(entry.s, None)
    ELSE IF entry.t = "obj" /\ entry.data_uri /= None
         THEN Return(Normalised(entry.data_uri[1], None))
    ELSE IF entry.t = "obj" /\ entry.base64 /= None
         THEN Return(Normalised(entry.base64[1], entry.mime))
    ELSE IF entry.t = "obj" /\ entry.path /= None
         THEN _load_image(entry.path[1], entry.mime)
    ELSE Raise(Exc("ValueError", "Unsupported image entry format.", <<>>))

\* str.startswith("data:")
StartsWithData(encoded) == Len(encoded) > 0 /\ encoded[1] = "data:"

\* encoded.partition(",")[2]: what follows the first comma, "" without one.
AfterFirstComma(encoded) ==
    IF \E i \in DOMAIN encoded : encoded[i] = ","
    THEN LET i == CHOOSE k \in DOMAIN encoded :
                      /\ encoded[k] = ","
                      /\ \A j \in 1..(k - 1) : encoded[j] /= ","
         IN  SubSeq(encoded, i + 1, Len(encoded))
    ELSE <<>>

\* A formatter that hands Ollama the encoded text as it is.
_format_for_provider_mut_keep(provider, encoded, mime_type) ==
    IF provider = lmstudio
    THEN IF StartsWithData(encoded) THEN encoded
         ELSE LET mime == IF mime_type /= None THEN mime_type[1] ELSE "image/png"
              IN  <<"data:", mime, ";base64", ",">> \o encoded
    ELSE encoded

\* MCPServerState._format_for_provider
_format_for_provider(provider, encoded, mime_type) ==
    IF provider = lmstudio
    THEN IF StartsWithData(encoded) THEN encoded
         ELSE LET mime == IF mime_type /= None THEN mime_type[1] ELSE "image/png"
              IN  <<"data:", mime, ";base64", ",">> \o encoded
    ELSE IF provider = ollama
    THEN IF StartsWithData(encoded) THEN AfterFirstComma(encoded) ELSE encoded
    ELSE encoded

\* MCPServerState._prepare_images: entries are normalised and formatted in
\* order; the first entry that fails raises and ends the loop.
RECURSIVE _prepare_images(_, _)
_prepare_images(provider, entries) ==
    IF entries = <<>> THEN Return(<<>>)
    ELSE LET n == _normalise_image_entry(Head(entries))
         IN  IF ~n.ok THEN n
             ELSE LET rest == _prepare_images(provider, Tail(entries))
                  IN  IF ~rest.ok THEN rest
                      ELSE Return(<<_format_for_provider(provider, n.val.encoded,
                                                         n.val.mime)>> \o rest.val)

\* How many entries _prepare_images passes to _normalise_image_entry: all of
\* them, or up to and including the first that raises.
RECURSIVE Normalisations(_)
Normalisations(entries) ==
    IF entries = <<>> THEN 0
    ELSE IF ~_normalise_image_entry(Head(entries)).ok THEN 1
    ELSE 1 + Normalisations(Tail(entries))

----------------------------------------------------------------------------
(* Provider clients *)

\* A history event: a normalisation of the i-th entry of `images`, an
\* outbound POST made for entry i (0: for the whole request), the return
\* of that POST with the decoded response, or its failure.
Event(ev, i, provider, url, model, images, temperature, resp) ==
    [ev |-> ev, i |-> i, provider |-> provider, url |-> url, model |-> model,
     images |-> images, temperature |-> temperature, resp |-> resp]

NormaliseEvent(i) == Event("normalise", i, <<>>, "", "", <<>>, None, "")
ReturnEvent(i, r) == Event("return", i, <<>>, "", "", <<>>, None, r)
FailedEvent(i, outcome) == Event("failed", i, <<>>, "", "", <<>>, None, outcome)

\* The decoded JSON bodies a backend may answer with.
Responses == {"r1", "r2"}

\* How one urlopen round trip can end: a 2xx answer with a JSON body, a
\* non-2xx status (HTTPError), a failure to connect (URLError), a 2xx answer
\* whose body is not JSON (json.loads raises JSONDecodeError, a ValueError),
\* a timeout or reset while the answer is read (an OSError that urlopen
\* does not wrap).
Outcomes == {"ok", "http_error", "url_error", "bad_json", "read_timeout"}

\* clients._post_json: what the call returns or raises for an outcome.
_post_json(outcome, r) ==
    IF outcome = "ok" THEN Return(r)
    ELSE IF outcome = "http_error"
         THEN Raise(Exc("LLMClientError", "HTTP <code> error from provider: <message>", <<>>))
    ELSE IF outcome = "url_error"
         THEN Raise(Exc("LLMClientError", "Transport error contacting provider: <reason>", <<>>))
    ELSE IF outcome = "bad_json"
         THEN Raise(Exc("ValueError", "Expecting value", <<>>))
    ELSE Raise(Exc("OSError", "timed out", <<>>))

\* A chat that posts without testing that a model name was resolved.
client_chat_mut_nocheck(cfg, name, model, images, temperature, i) ==
    LET model_name == IF model /= None THEN model
                      ELSE ClientConfig(cfg, name).default_model
    IN  Return(Event("post", i, name,
                     IF name = lmstudio THEN "/v1/chat/completions"
                     ELSE "/api/chat",
                     IF model_name = None THEN "" ELSE model_name[1], images,
                     IF name = lmstudio THEN temperature ELSE None, ""))

\* LMStudioClient.chat / OllamaClient.chat up to the outbound POST:
\* model or default_model, LLMClientError when neither is set.
client_chat(cfg, name, model, images, temperature, i) ==
    LET model_name == IF model /= None THEN model
                      ELSE ClientConfig(cfg, name).default_model
    IN  IF model_name = None
        THEN Raise(Exc("LLMClientError",
                       IF name = lmstudio THEN "No model configured for LM Studio."
                       ELSE "No model configured for Ollama.", <<>>))
        ELSE Return(Event("post", i, name,
                          IF name = lmstudio THEN "/v1/chat/completions"
                          ELSE "/api/chat",
                          model_name[1], images,
                          IF name = lmstudio THEN temperature ELSE None, ""))

\* LMStudioClient.vision / OllamaClient.vision: one user message carrying the
\* prompt and the images, handed to chat (LM Studio: with the default
\* temperature).
client_vision(cfg, name, model, images, i) ==
    client_chat(cfg, name, model, images, Some("0.2"), i)

----------------------------------------------------------------------------
(* Payloads *)

\* The `images` field: missing, not a list, or a list of entries.
ImagesMissing   == [t |-> "missing", items |-> <<>>]
ImagesNotList   == [t |-> "notlist", items |-> <<>>]
ImagesList(seq) == [t |-> "list", items |-> seq]

\* A JSON object body.  messages is "missing", "notlist", "empty" or
\* "nonempty"; model is optional.
Payload(provider, messages, images, model) ==
    [provider |-> provider, messages |-> messages, images |-> images,
     model |-> model]

EmptyPayload == Payload(ProviderAbsent, "missing", ImagesMissing, None)

\* `not isinstance(messages, list) or not messages`
BadMessages(payload) == payload.messages /= "nonempty"

\* `not isinstance(images, list) or not images`
BadImages(payload) == payload.images.t /= "list" \/ payload.images.items = <<>>

\* payload.get(...) on a body that is valid JSON but not an object.
NotAnObject == Exc("AttributeError", "object has no attribute 'get'", <<>>)

----------------------------------------------------------------------------
(* Dispatcher: MCPServerState.chat, vision and batch, each up to its first   *)
(* outbound POST.  A value [name, post, normalised] is returned when the    *)
(* POST is made; `normalised` counts the entries handed to                  *)
(* _normalise_image_entry on the way.                                       *)

Pending(name, post, normalised) ==
    Return([name |-> name, post |-> post, normalised |-> normalised])

RaiseAfter(exc, normalised) ==
    [ok |-> FALSE, val |-> [name |-> <<>>, post |-> NormaliseEvent(0),
                            normalised |-> normalised], exc |-> exc]

\* MCPServerState.chat
chat(cfg, isobj, payload) ==
    IF ~isobj THEN RaiseAfter(NotAnObject, 0)
    ELSE LET client == get_client(cfg, payload.provider)
         IN  IF ~client.ok THEN RaiseAfter(client.exc, 0)
             ELSE IF BadMessages(payload)
             THEN RaiseAfter(Exc("ValueError", "'messages' must be a non-empty list.", <<>>), 0)
             ELSE LET call == client_chat(cfg, client.val, payload.model, <<>>,
                                          Some("0.2"), 0)
                  IN  IF ~call.ok THEN RaiseAfter(call.exc, 0)
                      ELSE Pending(client.val, call.val, 0)

\* MCPServerState.vision
vision(cfg, isobj, payload) ==
    IF ~isobj THEN RaiseAfter(NotAnObject, 0)
    ELSE LET client == get_client(cfg, payload.provider)
         IN  IF ~client.ok THEN RaiseAfter(client.exc, 0)
             ELSE IF BadImages(payload)
             THEN RaiseAfter(Exc("ValueError", "'images' must be a non-empty list.", <<>>), 0)
             ELSE LET prepared == _prepare_images(client.val, payload.images.items)
                      n == Normalisations(payload.images.items)
                  IN  IF ~prepared.ok THEN RaiseAfter(prepared.exc, n)
                      ELSE LET call == client_vision(cfg, client.val, payload.model,
                                                     prepared.val, 0)
                           IN  IF ~call.ok THEN RaiseAfter(call.exc, n)
                               ELSE Pending(client.val, call.val, n)

\* MCPServerState.batch, lines 80-87: provider resolution and validation.
batch_validate(cfg, isobj, payload) ==
    IF ~isobj THEN Raise(NotAnObject)
    ELSE LET client == get_client(cfg, payload.provider)
         IN  IF ~client.ok THEN client
             ELSE IF BadImages(payload)
             THEN Raise(Exc("ValueError", "'images' must be a non-empty list.", <<>>))
             ELSE client

\* A loop turn that hands entry i and every entry after it to
\* _prepare_images.
BatchSlice_mut_rest(items, i) == SubSeq(items, i, Len(items))

\* MCPServerState.batch, line 90: the list handed to _prepare_images in the
\* loop's turn for entry i, [image_entry].
BatchSlice(items, i) == <<items[i]>>

\* A results list built by inserting at the front.
AppendResult_mut_prepend(res, image_entry, resp) ==
    <<[image |-> image_entry, response |-> resp]>> \o res

\* MCPServerState.batch, line 92: results.append({image, response}).
AppendResult(res, image_entry, resp) ==
    Append(res, [image |-> image_entry, response |-> resp])

\* MCPServerState.batch, lines 90-91: one turn of the loop for entry i, up
\* to its outbound POST.
batch_item(cfg, name, payload, i) ==
    LET prepared == _prepare_images(name, BatchSlice(payload.images.items, i))
        n == Normalisations(BatchSlice(payload.images.items, i))
    IN  IF ~prepared.ok THEN RaiseAfter(prepared.exc, n)
        ELSE LET call == client_vision(cfg, name, payload.model, prepared.val, i)
             IN  IF ~call.ok THEN RaiseAfter(call.exc, n)
                 ELSE Pending(name, call.val, n)

\* MCPServerState.batch up to the first outbound POST.
batch(cfg, isobj, payload) ==
    LET v == batch_validate(cfg, isobj, payload)
    IN  IF ~v.ok THEN RaiseAfter(v.exc, 0)
        ELSE batch_item(cfg, v.val, payload, 1)

----------------------------------------------------------------------------
(* Requests *)

Paths == {"/health", "/config", "/chat", "/analyze", "/batch", "/other"}

\* body: "none" (a GET or OPTIONS request), "absent" (no Content-Length or
\* 0), "invalid" (not JSON), "nonobject" (JSON, but a list, string or
\* number), "object".
Request(method, path, body, payload) ==
    [method |-> method, path |-> path, body |-> body, payload |-> payload]

NoRequest == Request("", "", "none", EmptyPayload)

ProviderValues ==
    {ProviderAbsent, ProviderStr(lmstudio), ProviderStr(LMStudioMixed),
     ProviderStr(OllamaUpper), ProviderStr(bogus), ProviderStr(BogusMixed),
     ProviderStr(<<>>), ProviderNum}

MessagesValues == {"missing", "notlist", "empty", "nonempty"}

Models == {None, Some("m1")}

ImageLists == UNION {[1..n -> Entries] : n \in 0..MaxImages}

ImagesValues == {ImagesMissing, ImagesNotList} \cup {ImagesList(l) : l \in ImageLists}

GetRequests == {Request("GET", p, "none", EmptyPayload) : p \in Paths}

\* Methods for which MCPRequestHandler defines no do_<METHOD>.
OtherMethods == {"PUT", "DELETE"}

OtherRequests ==
    {Request(m, p, "none", EmptyPayload) : m \in OtherMethods, p \in Paths}

OptionsRequests == {Request("OPTIONS", p, "none", EmptyPayload) : p \in Paths}

PostRequests ==
    {Request("POST", p, b, EmptyPayload) :
        p \in Paths, b \in {"absent", "invalid", "nonobject"}}
    \cup {Request("POST", p, "object", EmptyPayload) :
        p \in {"/health", "/config", "/other"}}
    \cup {Request("POST", "/chat", "object", Payload(pr, m, ImagesMissing, mo)) :
        pr \in ProviderValues, m \in MessagesValues, mo \in Models}
    \cup {Request("POST", p, "object", Payload(pr, "missing", im, mo)) :
        p \in {"/analyze", "/batch"}, pr \in ProviderValues,
        im \in ImagesValues, mo \in Models}

----------------------------------------------------------------------------
(* Lifecycle wrapper: MCPServer over ThreadedHTTPServer *)

MainThread == 0
BgThreads == 1..MaxThreads

\* Thread.is_alive(): serve_forever was entered and has not returned.
Alive(t) == tpc[t] \in {"clear", "loop", "finally"}

\* A serve loop is accepting connections.
Serving == \E x \in DOMAIN tpc : tpc[x] = "loop"

\* Where the main thread goes when stop() returns: back into the interrupted
\* serve loop after the signal handler, out of main() after wait_forever,
\* back to the caller otherwise.
StopReturns ==
    IF in_handler
    THEN mpc' = "serving" /\ in_handler' = FALSE
    ELSE /\ mpc' = IF mode = "cli" THEN "exited" ELSE "ready"
         /\ UNCHANGED in_handler

\* `self._thread and self._thread.is_alive()`
TrackedAlive == _thread /= None /\ Alive(_thread[1])

\* A start() without the test of line 222: a thread is created whether or
\* not the tracked one is alive.
start_mut_nocheck ==
    /\ mode = "library" /\ mpc = "ready"
    /\ \E t \in BgThreads :
        /\ tpc[t] = "none"
        /\ \A u \in BgThreads : u < t => tpc[u] /= "none"
        /\ tpc' = [tpc EXCEPT ![t] = "clear"]
        /\ _thread' = Some(t)
    /\ raised' = None
    /\ UNCHANGED <<mode, mpc, in_handler, shutdown_request, is_shut_down, closed>>
    /\ UNCHANGED <<config, reqvars>>

\* MCPServer.start with no live tracked thread: a new daemon thread is
\* created to run serve_forever, and start returns.
start ==
    /\ mode = "library" /\ mpc = "ready"
    /\ ~TrackedAlive
    /\ \E t \in BgThreads :
        /\ tpc[t] = "none"
        /\ \A u \in BgThreads : u < t => tpc[u] /= "none"
        /\ tpc' = [tpc EXCEPT ![t] = "clear"]
        /\ _thread' = Some(t)
    /\ raised' = None
    /\ UNCHANGED <<mode, mpc, in_handler, shutdown_request, is_shut_down, closed>>
    /\ UNCHANGED <<config, reqvars>>

\* MCPServer.start while the tracked thread is alive: RuntimeError("Server
\* already running"), raised before anything is assigned.
start_refused ==
    /\ mode = "library" /\ mpc = "ready"
    /\ TrackedAlive
    /\ raised' = Some("RuntimeError")
    /\ UNCHANGED <<mode, mpc, in_handler, _thread, tpc, shutdown_request,
                   is_shut_down, closed>>
    /\ UNCHANGED <<config, reqvars>>

\* MCPServer.wait_forever: serve_forever on the calling thread.
wait_forever ==
    /\ mpc = "ready"
    /\ mpc' = "serving"
    /\ tpc' = [tpc EXCEPT ![MainThread] = "clear"]
    /\ UNCHANGED <<mode, in_handler, _thread, shutdown_request, is_shut_down, closed>>
    /\ UNCHANGED <<config, reqvars, raised>>

\* The thread x may run: the main thread does not run its serve loop while
\* it is inside the signal handler.
Runs(x) == x = MainThread => (mpc = "serving" /\ ~in_handler)

\* serve_forever, entry: the event is cleared and the listener registered
\* with the selector, which raises on a closed socket.
serve_clear(x) ==
    /\ tpc[x] = "clear" /\ Runs(x)
    /\ is_shut_down' = FALSE
    /\ tpc' = [tpc EXCEPT ![x] = IF closed THEN "finally" ELSE "loop"]
    /\ UNCHANGED <<mode, mpc, in_handler, _thread, shutdown_request, closed>>
    /\ UNCHANGED <<config, reqvars, raised>>

\* serve_forever, loop: `while not self.__shutdown_request`.
serve_loop_exit(x) ==
    /\ tpc[x] = "loop" /\ Runs(x)
    /\ shutdown_request
    /\ tpc' = [tpc EXCEPT ![x] = "finally"]
    /\ UNCHANGED <<mode, mpc, in_handler, _thread, shutdown_request,
                   is_shut_down, closed>>
    /\ UNCHANGED <<config, reqvars, raised>>

\* A KeyboardInterrupt raised in the main thread's serve loop (no SIGINT
\* handler is installed when the wrapper is used as a library).
keyboard_interrupt ==
    /\ mode = "library" /\ mpc = "serving"
    /\ tpc[MainThread] = "loop"
    /\ tpc' = [tpc EXCEPT ![MainThread] = "finally"]
    /\ UNCHANGED <<mode, mpc, in_handler, _thread, shutdown_request,
                   is_shut_down, closed>>
    /\ UNCHANGED <<config, reqvars, raised>>

\* serve_forever, finally: the request flag is reset and the event set.  On
\* the main thread wait_forever's own finally then calls stop().
serve_finally(x) ==
    /\ tpc[x] = "finally" /\ Runs(x)
    /\ shutdown_request' = FALSE
    /\ is_shut_down' = TRUE
    /\ tpc' = [tpc EXCEPT ![x] = "dead"]
    /\ mpc' = IF x = MainThread THEN "stop_set" ELSE mpc
    /\ UNCHANGED <<mode, in_handler, _thread, closed>>
    /\ UNCHANGED <<config, reqvars, raised>>

\* __main__._shutdown: SIGINT or SIGTERM delivered while main() is in
\* wait_forever; the handler runs on the main thread and calls stop().
signal_handler ==
    /\ mode = "cli" /\ mpc = "serving" /\ ~in_handler
    /\ tpc[MainThread] = "loop"
    /\ in_handler' = TRUE
    /\ mpc' = "stop_set"
    /\ UNCHANGED <<mode, _thread, tpc, shutdown_request, is_shut_down, closed>>
    /\ UNCHANGED <<config, reqvars, raised>>

\* MCPServer.stop called by the library's user.
stop ==
    /\ mode = "library" /\ mpc = "ready"
    /\ mpc' = "stop_set"
    /\ UNCHANGED <<mode, in_handler, _thread, tpc, shutdown_request,
                   is_shut_down, closed>>
    /\ UNCHANGED <<config, reqvars, raised>>

\* stop, line 238: shutdown() sets the request flag ...
stop_set ==
    /\ mpc = "stop_set"
    /\ shutdown_request' = TRUE
    /\ mpc' = "stop_wait"
    /\ UNCHANGED <<mode, in_handler, _thread, tpc, is_shut_down, closed>>
    /\ UNCHANGED <<config, reqvars, raised>>

\* ... and waits for the event, with no timeout.
stop_wait ==
    /\ mpc = "stop_wait"
    /\ is_shut_down
    /\ mpc' = "stop_close"
    /\ UNCHANGED <<mode, in_handler, _thread, tpc, shutdown_request,
                   is_shut_down, closed>>
    /\ UNCHANGED <<config, reqvars, raised>>

\* stop, lines 239-240: server_close(), then the test of _thread.
stop_close ==
    /\ mpc = "stop_close"
    /\ closed' = TRUE
    /\ IF _thread /= None
       THEN mpc' = "stop_join" /\ UNCHANGED in_handler
       ELSE StopReturns
    /\ UNCHANGED <<mode, _thread, tpc, shutdown_request, is_shut_down>>
    /\ UNCHANGED <<config, reqvars, raised>>

\* stop, lines 241-242: join(timeout=2) returns when the thread has ended
\* or when the two seconds are over; _thread is cleared.
stop_join ==
    /\ mpc = "stop_join"
    /\ _thread' = None
    /\ StopReturns
    /\ UNCHANGED <<mode, tpc, shutdown_request, is_shut_down, closed>>
    /\ UNCHANGED <<config, reqvars, raised>>

----------------------------------------------------------------------------
(* Router: MCPRequestHandler *)

\* A header line.
Header(name, value) == [name |-> name, value |-> value]

\* The three send_header calls of lines 142-144 and 160-162.
CorsHeaders ==
    { Header("Access-Control-Allow-Origin", "*"),
      Header("Access-Control-Allow-Methods", "GET, POST, OPTIONS"),
      Header("Access-Control-Allow-Headers", "Content-Type") }

\* _send_json, lines 140-144: the headers of a JSON response.
JsonHeaders ==
    { Header("Content-Type", "application/json"),
      Header("Content-Length", "<len(body)>") } \cup CorsHeaders

\* What one _send_json(status, payload) writes: the status, the headers and
\* the keys and values of the JSON body.
Resp(status, keys, error, provider, resp, res) ==
    [status |-> status, headers |-> JsonHeaders, hasbody |-> TRUE,
     keys |-> keys, error |-> error, provider |-> provider,
     response |-> resp, results |-> res, snapshot |-> NoSnapshot]

\* An error body that keeps a `results` key beside `error`.
ErrorBody_mut_partial(status, exc) ==
    Resp(status, {"error", "results"}, exc, <<>>, None, <<>>)

\* _send_json(status, {"error": str(exc)})
ErrorBody(status, exc) == Resp(status, {"error"}, exc, <<>>, None, <<>>)

UnknownEndpoint == ErrorBody(404, Exc("", "Unknown endpoint", <<>>))

\* do_POST, lines 196-201: the except clauses.
ErrorResponse(exc) ==
    IF exc.cls \in {"ValueError", "LLMClientError"}
    THEN ErrorBody(400, exc)
    ELSE ErrorBody(500, exc)

\* MCPRequestHandler._parse_json
_parse_json(req) ==
    IF req.body = "absent"
    THEN Raise(Exc("ValueError", "Missing request body", <<>>))
    ELSE IF req.body = "invalid"
    THEN Raise(Exc("ValueError", "Invalid JSON payload: <msg>", <<>>))
    ELSE Return(req.payload)

\* MCPRequestHandler.do_OPTIONS: send_response(204), the three CORS headers,
\* end_headers; nothing is written after the headers.
do_OPTIONS(req) ==
    [Resp(204, {}, NoExc, <<>>, None, <<>>)
        EXCEPT !.headers = CorsHeaders, !.hasbody = FALSE]

\* MCPRequestHandler.do_GET
do_GET(cfg, req) ==
    IF req.path = "/health" THEN Resp(200, {"status"}, NoExc, <<>>, None, <<>>)
    ELSE IF req.path = "/config"
    THEN [Resp(200, {"host", "port", "default_provider", "providers"},
               NoExc, <<>>, None, <<>>)
            EXCEPT !.snapshot = as_dict(cfg)]
    ELSE UnknownEndpoint

\* A request whose method has no handler: BaseHTTPRequestHandler answers
\* send_error(501) itself, an HTML page with the headers Connection,
\* Content-Type and Content-Length.
no_handler(req) ==
    [Resp(501, {}, Exc("", "Unsupported method", <<>>), <<>>, None, <<>>)
        EXCEPT !.headers = { Header("Connection", "close"),
                             Header("Content-Type", "text/html;charset=utf-8"),
                             Header("Content-Length", "<len(body)>") }]

Routed(path) == path \in {"/chat", "/analyze", "/batch"}

\* do_POST, lines 186-191: the dispatcher operation of a routed path.
Dispatch(cfg, req) ==
    IF req.path = "/chat" THEN chat(cfg, req.body = "object", req.payload)
    ELSE IF req.path = "/analyze" THEN vision(cfg, req.body = "object", req.payload)
    ELSE batch(cfg, req.body = "object", req.payload)

\* The normalise events of entries from, from + 1, ..., from + n - 1.
NormaliseEvents(from, n) == [k \in 1..n |-> NormaliseEvent(from + k - 1)]

\* Index of the entry the pending POST was made for (0: chat, vision).
CurrentItem == log[Len(log)].i

\* One _send_json or send_response call: the status it began with and
\* whether every write to the connection went through (a peer that has
\* reset the connection makes sendall raise ConnectionResetError or
\* BrokenPipeError, and every later write on that connection too).
Write(status, sent) == [status |-> status, sent |-> sent]

\* A response written outside the try block of do_POST (do_GET, do_OPTIONS,
\* lines 181, 198, 201): an exception of the write leaves the handler.
Respond(r) ==
    /\ pc' = "responded"
    /\ response' = Some(r)
    /\ \E sent \in BOOLEAN : writes' = <<Write(r.status, sent)>>

\* A response written inside the try block of do_POST (lines 193, 195): an
\* exception of the write is caught by `except Exception`, whose
\* _send_json(500, ...) begins another response on the same connection.
RespondInTry(r) ==
    /\ pc' = "responded"
    /\ response' = Some(r)
    /\ \E sent \in BOOLEAN :
        writes' = IF sent THEN <<Write(r.status, TRUE)>>
                  ELSE <<Write(r.status, FALSE), Write(500, FALSE)>>

\* A server that handles each request in the serve loop itself (HTTPServer
\* without ThreadingMixIn): nothing is accepted while a handler is blocked.
CanAccept_mut_single == Serving /\ pc /= "calling"

\* ThreadingMixIn.process_request: the serve loop hands every accepted
\* connection to a thread of its own, so it accepts while handlers run.
CanAccept == Serving

\* do_GET on a second connection, whole: GET /health handled by a thread of
\* its own, whatever the first handler is doing.
ConcurrentHealth ==
    /\ CanAccept
    /\ concurrent' = Some(do_GET(config, Request("GET", "/health", "none",
                                                 EmptyPayload)))
    /\ UNCHANGED <<config, pc, request, provider_name, items_done, results,
                   response, log, writes, lifevars>>

\* do_OPTIONS, whole.
HandleOPTIONS ==
    /\ pc = "idle"
    /\ Serving
    /\ \E req \in OptionsRequests :
        /\ request' = req
        /\ Respond(do_OPTIONS(req))
    /\ concurrent' = None
    /\ UNCHANGED <<config, provider_name, items_done, results, log, lifevars>>

\* do_GET, whole.
HandleGET ==
    /\ pc = "idle"
    /\ Serving
    /\ \E req \in GetRequests :
        /\ request' = req
        /\ Respond(do_GET(config, req))
    /\ concurrent' = None
    /\ UNCHANGED <<config, provider_name, items_done, results, log, lifevars>>

\* A request with another method, whole.
HandleOther ==
    /\ pc = "idle"
    /\ Serving
    /\ \E req \in OtherRequests :
        /\ request' = req
        /\ Respond(no_handler(req))
    /\ concurrent' = None
    /\ UNCHANGED <<config, provider_name, items_done, results, log, lifevars>>

\* do_POST up to the response or to the first outbound POST, where the
\* handler thread blocks in urlopen.
HandlePOST ==
    /\ pc = "idle"
    /\ Serving
    /\ \E req \in PostRequests :
        /\ request' = req
        /\ LET parsed == _parse_json(req)
           IN  IF ~parsed.ok
               THEN /\ Respond(ErrorBody(400, parsed.exc))
                    /\ UNCHANGED <<provider_name, log>>
               ELSE IF ~Routed(req.path)
               THEN /\ RespondInTry(UnknownEndpoint)
                    /\ UNCHANGED <<provider_name, log>>
               ELSE LET d == Dispatch(config, req)
                        norm == NormaliseEvents(1, d.val.normalised)
                    IN  IF d.ok
                        THEN /\ pc' = "calling"
                             /\ provider_name' = d.val.name
                             /\ log' = norm \o <<d.val.post>>
                             /\ UNCHANGED <<response, writes>>
                        ELSE /\ Respond(ErrorResponse(d.exc))
                             /\ log' = norm
                             /\ UNCHANGED provider_name
    /\ concurrent' = None
    /\ UNCHANGED <<config, items_done, results, lifevars>>

\* The pending urlopen ends; the handler runs on to its response or, in
\* batch, to the next entry's outbound POST.
ProviderReturns ==
    /\ pc = "calling"
    /\ \E outcome \in Outcomes, r \in Responses :
        LET ret == _post_json(outcome, r)
            i   == CurrentItem
            items == request.payload.images.items
        IN  IF ~ret.ok
            THEN /\ Respond(ErrorResponse(ret.exc))
                 /\ log' = Append(log, FailedEvent(i, outcome))
                 /\ UNCHANGED <<items_done, results>>
            ELSE IF request.path /= "/batch"
            THEN /\ RespondInTry(Resp(200, {"provider", "response"}, NoExc,
                                      provider_name, Some(ret.val), <<>>))
                 /\ log' = Append(log, ReturnEvent(i, ret.val))
                 /\ UNCHANGED <<items_done, results>>
            ELSE LET results1 == AppendResult(results, items[i], ret.val)
                     log1 == Append(log, ReturnEvent(i, ret.val))
                 IN  /\ items_done' = i
                     /\ results' = results1
                     /\ IF i = Len(items)
                        THEN /\ RespondInTry(Resp(200, {"provider", "results"},
                                                  NoExc, provider_name, None,
                                                  results1))
                             /\ log' = log1
                        ELSE LET d == batch_item(config, provider_name,
                                                 request.payload, i + 1)
                                 norm == NormaliseEvents(i + 1, d.val.normalised)
                             IN  IF d.ok
                                 THEN /\ pc' = "calling"
                                      /\ log' = log1 \o norm \o <<d.val.post>>
                                      /\ UNCHANGED <<response, writes>>
                                 ELSE /\ Respond(ErrorResponse(d.exc))
                                      /\ log' = log1 \o norm
    /\ concurrent' = None
    /\ UNCHANGED <<config, request, provider_name, lifevars>>

\* A handler that reads the configuration anew when it ends.
Finish_mut_reload ==
    /\ pc = "responded"
    /\ pc' = "idle"
    /\ request' = NoRequest
    /\ provider_name' = <<>>
    /\ items_done' = 0
    /\ results' = <<>>
    /\ response' = None
    /\ log' = <<>>
    /\ writes' = <<>>
    /\ concurrent' = None
    /\ config' = DefaultConfig
    /\ UNCHANGED lifevars

\* The connection is closed and the handler thread ends; the next request
\* is handled by a new thread with fresh locals.
Finish ==
    /\ pc = "responded"
    /\ pc' = "idle"
    /\ request' = NoRequest
    /\ provider_name' = <<>>
    /\ items_done' = 0
    /\ results' = <<>>
    /\ response' = None
    /\ log' = <<>>
    /\ writes' = <<>>
    /\ concurrent' = None
    /\ UNCHANGED <<config, lifevars>>

----------------------------------------------------------------------------
(* Specifications *)

\* MCPServer.__init__: nothing serves, no thread is tracked, the event of the
\* listener is clear.
LifeInitial ==
    /\ mpc = "ready"
    /\ in_handler = FALSE
    /\ _thread = None
    /\ tpc = [x \in {MainThread} \cup BgThreads |-> "none"]
    /\ shutdown_request = FALSE
    /\ is_shut_down = FALSE
    /\ closed = FALSE
    /\ raised = None

ReqInitial ==
    /\ pc = "idle"
    /\ request = NoRequest
    /\ provider_name = <<>>
    /\ items_done = 0
    /\ results = <<>>
    /\ response = None
    /\ log = <<>>
    /\ writes = <<>>
    /\ concurrent = None

vars == <<config, pc, request, provider_name, items_done, results, response,
          log, writes, concurrent, mode, mpc, in_handler, _thread, tpc,
          shutdown_request, is_shut_down, closed, raised>>

\* Request handling: a server constructed with any of the configurations and
\* started with start(); requests are accepted once the serve loop runs.
Init ==
    /\ config \in Configs
    /\ mode = "library"
    /\ ReqInitial
    /\ LifeInitial

Next ==
    \/ start
    \/ \E x \in BgThreads : serve_clear(x)
    \/ HandleOPTIONS
    \/ HandleGET
    \/ HandlePOST
    \/ HandleOther
    \/ ProviderReturns
    \/ Finish
    \/ ConcurrentHealth

Spec == Init /\ [][Next]_vars

\* Lifecycle: the wrapper driven by __main__.main ("cli": wait_forever and
\* the signal handler) or by a caller of start, wait_forever and stop
\* ("library").
LifeInit ==
    /\ config = DefaultConfig
    /\ mode \in {"cli", "library"}
    /\ ReqInitial
    /\ LifeInitial

\* The steps the main thread takes by itself once inside wait_forever or
\* stop().
MainStep ==
    \/ serve_clear(MainThread)
    \/ serve_loop_exit(MainThread)
    \/ serve_finally(MainThread)
    \/ stop_set
    \/ stop_wait
    \/ stop_close
    \/ stop_join

\* The steps of background thread t in serve_forever.
BgStep(t) ==
    \/ serve_clear(t)
    \/ serve_loop_exit(t)
    \/ serve_finally(t)

LifeNext ==
    \/ start
    \/ start_refused
    \/ wait_forever
    \/ stop
    \/ keyboard_interrupt
    \/ signal_handler
    \/ MainStep
    \/ \E t \in BgThreads : BgStep(t)

\* Every thread that can take a step of serve_forever or of stop() is
\* eventually scheduled; calls of the API and signals are the environment's.
LifeSpec ==
    /\ LifeInit
    /\ [][LifeNext]_vars
    /\ WF_vars(MainStep)
    /\ \A t \in BgThreads : WF_vars(BgStep(t))

----------------------------------------------------------------------------
(* Vocabulary of the properties *)

Responded == pc = "responded"

TheResponse == response[1]

IsPost(e) == e.ev = "post"
IsReturn(e) == e.ev = "return"

\* The outbound POSTs of the request, in the order they were made, and the
\* decoded responses that came back.
Posts == SelectSeq(log, IsPost)
Returns == SelectSeq(log, IsReturn)

Items == request.payload.images.items

\* A POST to /chat, /analyze or /batch whose body is parseable JSON.
ParseableRoutedPost ==
    /\ request.method = "POST"
    /\ Routed(request.path)
    /\ request.body \in {"nonobject", "object"}

\* The dispatcher operation ran to its return statement.
DispatcherReturned ==
    /\ log /= <<>>
    /\ log[Len(log)].ev = "return"
    /\ request.path = "/batch" => log[Len(log)].i = Len(Items)

\* The request matches a row of the routing table.
MatchesRoute(req) ==
    \/ req.method = "OPTIONS"
    \/ req.method = "GET" /\ req.path \in {"/health", "/config"}
    \/ req.method = "POST" /\ Routed(req.path)

\* Entry k is a path string naming an unreadable file, and every entry
\* before it normalises.
UnreadableFirst(items, k) ==
    /\ k \in DOMAIN items
    /\ items[k].t = "str"
    /\ items[k].s \notin ReadablePaths
    /\ \A j \in 1..(k - 1) : _normalise_image_entry(items[j]).ok

----------------------------------------------------------------------------
(* C1..C9: request handling *)

\* C1 (as claimed): a POST /analyze whose images list holds a path string
\* naming an unreadable file is answered 400 {error: message}, the message
\* referring to the file, and no provider call is made.  The provider
\* resolves and the unreadable entry is the first entry that fails.
C1_UnreadableImageIs400 ==
    \A k \in 1..MaxImages :
        ( /\ Responded
          /\ request.method = "POST" /\ request.path = "/analyze"
          /\ request.body = "object"
          /\ get_client(config, request.payload.provider).ok
          /\ request.payload.images.t = "list"
          /\ UnreadableFirst(Items, k) )
        => /\ TheResponse.status = 400
           /\ TheResponse.keys = {"error"}
           /\ TheResponse.error.arg = Items[k].s
           /\ Posts = <<>>

\* C2 (as claimed): a POST to /chat, /analyze or /batch with a parseable
\* JSON body is answered 200 when the dispatcher returned a result, and 400
\* {error: message} when the request was rejected (malformed or missing
\* fields, unknown provider) or its provider call failed; 500 is left for
\* failures of neither kind, of which the model has none.
C2_FailuresAre400 ==
    (Responded /\ ParseableRoutedPost)
    => IF DispatcherReturned
       THEN TheResponse.status = 200 /\ "error" \notin TheResponse.keys
       ELSE TheResponse.status = 400 /\ TheResponse.keys = {"error"}

\* The name get_client looks up for a request: the requested name when the
\* request carries a non-empty one, the configured default otherwise,
\* lower-cased.
RequestedProvider == request.payload.provider

ResolvedName ==
    Lower(IF Truthy(RequestedProvider) THEN RequestedProvider.s
          ELSE config.default_provider)

UnsupportedProvider(name) ==
    ErrorBody(400, Exc("ValueError", "Unsupported provider '<name>'.", name))

\* The request reached get_client with a provider field that is missing or
\* a string.
Resolving ==
    /\ pc /= "idle"
    /\ request.method = "POST" /\ Routed(request.path)
    /\ request.body = "object"
    /\ RequestedProvider.t \in {"absent", "str"}

\* C3 (amended): the name resolved is the requested name, or the configured
\* default when the request names none or an empty one, lower-cased.  When
\* it is a configured provider, in whatever case it was written, resolution
\* succeeds with (lower-cased name, that provider's client): every outbound
\* POST goes to that client and a 200 answer names it.  When it is not,
\* the request is answered 400 "Unsupported provider '<lower-cased name>'."
\* and no provider call is made.
C3_Resolution ==
    Resolving =>
        LET name == ResolvedName
            posts == Posts
        IN  IF name \in Clients
            THEN /\ response /= None =>
                        TheResponse.error.msg /= "Unsupported provider '<name>'."
                 /\ pc = "calling" => provider_name = name
                 /\ \A i \in DOMAIN posts :
                        /\ posts[i].provider = name
                        /\ posts[i].url = IF name = lmstudio
                                          THEN "/v1/chat/completions"
                                          ELSE "/api/chat"
                 /\ (response /= None /\ TheResponse.status = 200)
                        => TheResponse.provider = name
            ELSE /\ Responded
                 /\ TheResponse = UnsupportedProvider(name)
                 /\ posts = <<>>

\* C3 witness: a provider named in mixed case was resolved to the
\* lower-cased configured name and served the request.
C3_Witness ==
    /\ Responded
    /\ RequestedProvider = ProviderStr(LMStudioMixed)
    /\ TheResponse.status = 200
    /\ TheResponse.provider = lmstudio

\* C3 (as claimed): every name that is not a configured provider fails with
\* the message "Unsupported provider '<name>'." quoting the name as the
\* request wrote it.
C3_Original ==
    ( /\ Resolving
      /\ RequestedProvider.t = "str"
      /\ Lower(RequestedProvider.s) \notin Clients )
    => /\ Responded
       /\ TheResponse = UnsupportedProvider(RequestedProvider.s)
       /\ Posts = <<>>

\* C4 (as claimed): chat with messages missing, not a list or empty fails
\* with a validation error (ValueError, answered 400) and no provider
\* client is invoked.
C4_BadMessagesValidationError ==
    ( /\ Responded
      /\ request.method = "POST" /\ request.path = "/chat"
      /\ request.body = "object"
      /\ BadMessages(request.payload) )
    => /\ TheResponse.status = 400
       /\ TheResponse.error.cls = "ValueError"
       /\ Posts = <<>>

\* C5 (as claimed): vision and batch with images missing, not a list or
\* empty fail with a validation error before any image is normalised and
\* before any provider client is contacted.
C5_BadImagesValidationError ==
    ( /\ Responded
      /\ request.method = "POST" /\ request.path \in {"/analyze", "/batch"}
      /\ request.body = "object"
      /\ BadImages(request.payload) )
    => /\ TheResponse.status = 400
       /\ TheResponse.error.cls = "ValueError"
       /\ log = <<>>

\* C6: a batch whose n entries all succeed made exactly n vision calls, the
\* i-th for entry i alone, in input order, and is answered {provider,
\* results} with results[i] = {image: the i-th entry, response: what the
\* i-th call returned}.
C6_BatchOrder ==
    ( /\ Responded
      /\ request.method = "POST" /\ request.path = "/batch"
      /\ TheResponse.status = 200 )
    => /\ Len(Posts) = Len(Items)
       /\ Len(Returns) = Len(Items)
       /\ \A i \in DOMAIN Items :
            /\ Posts[i].i = i
            /\ Posts[i].images = _prepare_images(provider_name, <<Items[i]>>).val
            /\ Returns[i].i = i
       /\ TheResponse.keys = {"provider", "results"}
       /\ TheResponse.provider = provider_name
       /\ Len(TheResponse.results) = Len(Items)
       /\ \A i \in DOMAIN Items :
            /\ TheResponse.results[i].image = Items[i]
            /\ TheResponse.results[i].response = Returns[i].resp

\* C6 witness: a batch of two different entries answered with two different
\* responses.
C6_Witness ==
    /\ Responded
    /\ request.path = "/batch"
    /\ TheResponse.status = 200
    /\ Len(Items) >= 2
    /\ Items[1] /= Items[2]
    /\ TheResponse.results[1].response /= TheResponse.results[2].response

\* The batch passed provider resolution and validation and then failed.
BatchAborted ==
    /\ Responded
    /\ request.method = "POST" /\ request.path = "/batch"
    /\ request.body = "object"
    /\ batch_validate(config, TRUE, request.payload).ok
    /\ TheResponse.status /= 200

\* The error of the failing entry k: what its normalisation raised, or what
\* its vision call raised (before the POST, or the POST's failure).
EntryError(k) ==
    LET n == _normalise_image_entry(Items[k])
        call == client_vision(config, ResolvedName, request.payload.model, <<>>, k)
    IN  IF ~n.ok THEN n.exc
        ELSE IF ~call.ok THEN call.exc
        ELSE _post_json(log[Len(log)].resp, "r1").exc

\* C7: when entry k is the first of a batch to fail, nothing is normalised
\* or sent for an entry after k, the response is that entry's error, and
\* the k-1 results already computed are not in it.
C7_BatchAborts ==
    BatchAborted =>
        LET k == items_done + 1
        IN  /\ \A j \in DOMAIN log : log[j].i <= k
            /\ Len(results) = k - 1
            /\ TheResponse.keys = {"error"}
            /\ TheResponse.results = <<>>
            /\ TheResponse.error = EntryError(k)

\* C7 witness: the second entry failed after the first one's result had
\* been computed.
C7_Witness ==
    /\ BatchAborted
    /\ items_done >= 1
    /\ results /= <<>>

\* C8 (amended): a response to a POST carries either `provider` (a success)
\* or `error`, never both, and an error body carries nothing else; the
\* answers to GET /health and GET /config carry neither field, a GET to any
\* other path carries only `error`, and OPTIONS has no body.
C8_Envelope ==
    response /= None =>
        LET r == TheResponse
        IN  IF request.method = "POST"
            THEN /\ ("provider" \in r.keys) /= ("error" \in r.keys)
                 /\ "error" \in r.keys =>
                        /\ r.keys = {"error"}
                        /\ r.provider = <<>> /\ r.response = None /\ r.results = <<>>
                 /\ "provider" \in r.keys =>
                        /\ r.provider \in Clients
                        /\ \A i \in DOMAIN Posts : Posts[i].provider = r.provider
            ELSE IF request.method = "GET" /\ request.path \in {"/health", "/config"}
            THEN "provider" \notin r.keys /\ "error" \notin r.keys
            ELSE IF request.method = "GET"
            THEN r.keys = {"error"}
            ELSE r.keys = {}

\* C8 witness: the answer to GET /health, which carries neither field.
C8_Witness ==
    /\ Responded
    /\ request.method = "GET" /\ request.path = "/health"
    /\ TheResponse.keys = {"status"}

\* C8 (as claimed): every JSON envelope, for every route, carries `provider`
\* or `error`, and never `error` together with a success field.
C8_Original ==
    (response /= None /\ TheResponse.status /= 204)
    => /\ "provider" \in TheResponse.keys \/ "error" \in TheResponse.keys
       /\ ~ ( /\ "error" \in TheResponse.keys
              /\ TheResponse.keys \cap {"provider", "response", "results"} /= {} )

\* C9 (as claimed): a request that matches no route is answered 404
\* {error: "Unknown endpoint"}, whatever its body.
C9_UnroutedIs404 ==
    (Responded /\ ~MatchesRoute(request))
    => TheResponse = UnknownEndpoint

----------------------------------------------------------------------------
(* C10: lifecycle *)

InStop == mpc \in {"stop_set", "stop_wait", "stop_close", "stop_join"}

\* C10 (as claimed): stop() called by the wrapper's user in any lifecycle
\* state (never started, serving on a background thread, already stopped)
\* returns, with the listener closed and no background thread tracked.
C10_StopAlwaysReturns ==
    []((mode = "library" /\ InStop)
         => <>(mpc = "ready" /\ closed /\ _thread = None))

\* C11 (as claimed): a signal delivered while main() serves in wait_forever
\* is handled to the end: the handler's stop() returns and the serve loop
\* of the main thread ends.
C11_SignalShutdownCompletes ==
    []((mode = "cli" /\ in_handler)
         => <>(~in_handler /\ tpc[MainThread] = "dead"))

\* A step in which a thread is created for serve_forever.
ThreadCreated(t) == tpc[t] = "none" /\ tpc'[t] /= "none"

----------------------------------------------------------------------------
(* C13..C19: request handling *)

\* A key that is set: not None and not empty.
KeySet(k) == k /= None /\ k /= Some("")

\* The API keys a configuration holds.
KeyValues(cfg) == {k \in {cfg.lm_studio.api_key, cfg.ollama.api_key} : KeySet(k)}

\* Every text of a snapshot body.
SnapshotTexts(snap) ==
    {snap.default_provider, snap.lmstudio.api_key, snap.lmstudio.default_model,
     snap.ollama.api_key, snap.ollama.default_model}

\* Two configurations that differ at most in the values of keys that are set
\* in both.
SameButKeyValues(c1, c2) ==
    /\ WithKeys(c1, c2.lm_studio.api_key, c2.ollama.api_key) = c2
    /\ KeySet(c1.lm_studio.api_key) = KeySet(c2.lm_studio.api_key)
    /\ KeySet(c1.ollama.api_key) = KeySet(c2.ollama.api_key)

ConfigAnswered ==
    /\ response /= None
    /\ request.method = "GET" /\ request.path = "/config"

\* C13: the answer to GET /config holds no configured API key; a key that is
\* set shows as the redaction marker; and the body is the one a server whose
\* configuration differs only in the values of its keys answers with.
C13_ConfigHidesKeys ==
    ConfigAnswered =>
        /\ TheResponse.status = 200
        /\ KeyValues(config) \cap SnapshotTexts(TheResponse.snapshot) = {}
        /\ KeySet(config.lm_studio.api_key)
              => TheResponse.snapshot.lmstudio.api_key = Some(Hidden)
        /\ KeySet(config.ollama.api_key)
              => TheResponse.snapshot.ollama.api_key = Some(Hidden)
        /\ \A c \in Configs :
              SameButKeyValues(config, c)
                  => TheResponse.snapshot = do_GET(c, request).snapshot

\* C13 witness: /config answered by a server whose LM Studio key is set, and
\* another configuration differs from its own in that key alone.
C13_Witness ==
    /\ ConfigAnswered
    /\ config.lm_studio.api_key = Some("sk-A")
    /\ \E c \in Configs : c /= config /\ SameButKeyValues(config, c)

\* Every response written in the current state: the handler's and the one
\* on the second connection.
ResponsesWritten ==
    {response[i] : i \in DOMAIN response} \cup
    {concurrent[i] : i \in DOMAIN concurrent}

\* C14 (as claimed): every response carries the three CORS headers, for every route and
\* every status; an OPTIONS request to any path is answered 204 with these
\* headers and without a body.
C14_Cors ==
    /\ \A r \in ResponsesWritten :
          /\ r.status \in {200, 204, 400, 404, 500}
          /\ CorsHeaders \subseteq r.headers
    /\ (response /= None /\ request.method = "OPTIONS")
          => /\ TheResponse.status = 204
             /\ CorsHeaders \subseteq TheResponse.headers
             /\ ~TheResponse.hasbody
             /\ TheResponse.keys = {}

\* The entries an outbound POST carries images for: every entry of the
\* request (vision) or the one entry of its turn (batch).
EntriesOf(post) == IF post.i = 0 THEN Items ELSE <<Items[post.i]>>

\* A data URI: text that begins with the scheme.
IsDataUri(text) == text /= <<>> /\ Head(text) = "data:"

\* `out` is what follows the first comma of `text`.
IsPayloadOf(out, text) ==
    \E c \in DOMAIN text :
        /\ text[c] = ","
        /\ \A j \in 1..(c - 1) : text[j] /= ","
        /\ out = [j \in 1..(Len(text) - c) |-> text[c + j]]

\* The image string the claim gives for a normalised image.
FormattedAsClaimed(provider, out, n) ==
    IF provider = lmstudio
    THEN IF IsDataUri(n.encoded) THEN out = n.encoded
         ELSE \E mime \in {"image/png", "image/jpeg", "image/x-raw"} :
                /\ n.mime /= None => mime = n.mime[1]
                /\ n.mime = None => mime = "image/png"
                /\ out = <<"data:", mime, ";base64", ",">> \o n.encoded
    ELSE IF IsDataUri(n.encoded) THEN IsPayloadOf(out, n.encoded)
         ELSE out = n.encoded

\* C15: every outbound POST carries one image string per entry, in order,
\* formatted for its provider: for lmstudio a data URI as it is and any
\* other payload as data:<mime, image/png when none is known>;base64,
\* <payload>; for ollama the payload after the first comma of a data URI,
\* and a raw payload as it is.  An image without a MIME type raises nothing:
\* a vision request whose provider and model resolve and whose entries all
\* normalise reaches its outbound POST.
C15_Formatting ==
    /\ \A p \in DOMAIN Posts :
          LET post == Posts[p]
              entries == EntriesOf(post)
          IN  request.path \in {"/analyze", "/batch"} =>
                /\ Len(post.images) = Len(entries)
                /\ \A k \in DOMAIN entries :
                      FormattedAsClaimed(post.provider, post.images[k],
                                         _normalise_image_entry(entries[k]).val)
    /\ ( /\ pc /= "idle"
         /\ request.method = "POST" /\ request.path = "/analyze"
         /\ ~BadImages(request.payload)
         /\ Resolving /\ ResolvedName \in Clients
         /\ \A k \in DOMAIN Items : _normalise_image_entry(Items[k]).ok
         /\ client_vision(config, ResolvedName, request.payload.model, <<>>, 0).ok )
       => Len(Posts) = 1

\* C15 witness: Ollama was sent the payload of a data URI and a raw payload
\* that came without a MIME type.
C15_Witness ==
    /\ pc = "calling"
    /\ request.path = "/analyze"
    /\ Items = <<EntryDataUri, EntryBase64>>
    /\ Posts[1].provider = ollama
    /\ Posts[1].images = << <<"AAAA">>, <<"QUJD">> >>

\* The answer of GET /health.
HealthOk == Resp(200, {"status"}, NoExc, <<>>, None, <<>>)

\* C16: while the handler of one request is blocked in an outbound provider
\* call, a GET /health on another connection can be answered at once, and
\* the answer on the second connection is always 200 {status}, whatever the
\* configuration.
C16_HealthWhileBlocked ==
    /\ (Serving /\ pc = "calling") => ENABLED ConcurrentHealth
    /\ concurrent /= None => concurrent[1] = HealthOk

\* C16 witness: /health was answered while a handler waits for a provider,
\* on a server whose default provider is not a supported one.
C16_Witness ==
    /\ pc = "calling"
    /\ concurrent = Some(HealthOk)
    /\ Lower(config.default_provider) \notin Clients

IsFailed(e) == e.ev = "failed"

\* C17: a request makes at most one outbound POST per client call: at most
\* one for /chat and /analyze, at most one per entry for /batch, and none
\* when no model name is resolvable (the request names none and the
\* resolved provider's configuration has no default); a POST that fails is the last thing
\* the request does: no POST follows it and the request is answered with
\* that failure's error.
C17_NoRetry ==
    /\ LET posts == Posts
       IN  /\ request.path \in {"/chat", "/analyze"} => Len(posts) <= 1
           /\ \A a, b \in DOMAIN posts : a /= b => posts[a].i /= posts[b].i
    /\ (Resolving /\ request.payload.model = None)
          => LET name == ResolvedName
             IN  (name \in Clients /\ ClientConfig(config, name).default_model = None)
                    => /\ Posts = <<>>
                       /\ TheResponse.status /= 200
    /\ \A j \in DOMAIN log :
          IsFailed(log[j]) =>
              /\ j = Len(log)
              /\ Len(SelectSeq(log, IsFailed)) = 1
              /\ Responded
              /\ TheResponse = ErrorResponse(_post_json(log[j].resp, "r1").exc)

\* C17 witness: the one POST of a /chat request failed and the request was
\* answered with the provider's error.
C17_Witness ==
    /\ Responded
    /\ request.path = "/chat"
    /\ Len(Posts) = 1
    /\ IsFailed(log[Len(log)])
    /\ TheResponse.error.cls = "LLMClientError"

\* C18: no step changes the configuration, and with it the provider
\* configurations the two clients were built from; every outbound POST names
\* the model of the request or the default the configuration had at startup.
C18_SharedStateUnchanged ==
    [][ /\ config' = config
        /\ \A p \in DOMAIN Posts' :
              Posts'[p].model \in
                  {m[1] : m \in {request'.payload.model,
                                 ClientConfig(config, Posts'[p].provider).default_model}
                                \ {None}} ]_vars

\* C18 witness: a batch was answered by the default provider while /health
\* was answered on a second connection, on a server whose configured default
\* is written in upper case and still is.
C18_Witness ==
    /\ Responded
    /\ request.path = "/batch"
    /\ TheResponse.status = 200
    /\ RequestedProvider = ProviderAbsent
    /\ concurrent /= None
    /\ config.default_provider = OllamaUpper

\* C19 (as claimed): a GET or POST request is answered by exactly one
\* response: when its handler has ended it has begun one response and no
\* second one, also when the write of the response failed.
C19_OneResponse ==
    (Responded /\ request.method \in {"GET", "POST"})
    => Len(writes) = 1

----------------------------------------------------------------------------
(* C20: lifecycle *)

\* The threads inside the serve loop of the listener.
ServeLoops == {x \in DOMAIN tpc : tpc[x] = "loop"}

\* C20 (as claimed): at most one serve loop runs on the listener at any
\* time, whatever start(), wait_forever() and stop() calls were made.
C20_OneServeLoop == Cardinality(ServeLoops) <= 1

====
